---- MODULE Spec2Model ----
(***************************************************************************)
(* Model of the document-to-speech playback core:                          *)
(*   - TextToSpeechEngine (src/lib/text-to-speech.ts), a wrapper around    *)
(*     the browser's single speechSynthesis queue;                         *)
(*   - splitTextIntoChunks, the text chunker;                              *)
(*   - the TTSControls component (src/components/tts-controls.tsx), the    *)
(*     playback sequencer, driven through the AudioPlayer controls.        *)
(*                                                                         *)
(* Text is a sequence of one-character strings.  A handler of the          *)
(* component runs to its first await as one step; what it reads from the   *)
(* component's state it reads from the values captured by the render that  *)
(* created it (its closure), as JavaScript does.                           *)
(***************************************************************************)
EXTENDS Integers, Sequences, FiniteSets, TLC

\* ------------------------------------------------------------------ bounds
\* Number of utterances the engine's caller may request in one behaviour.
MaxUtterances == 3
\* Number of notices (toasts) a behaviour of the component may show.
MaxNotices == 2
\* Length of the texts and largest maxChunkSize splitTextIntoChunks is
\* called with directly.
MaxTextLen == 5
MaxSplitSize == 3
\* Number of calls of waitForVoices in one behaviour.
MaxVoiceCalls == 3
\* Number of files dropped on FileUpload in one behaviour.
MaxFiles == 2
\* Length of the voice lists getPreferredVoices is called with directly.
MaxVoices == 3
\* Number of rows of audio_sessions.
MaxSessions == 1

\* ------------------------------------------------------- program constants
SettleDelay == 50
InterChunkDelay == 100
RestartDelay == 100
DefaultMaxChunkSize == 300

\* -------------------------------------------------------------- text values
Rep(c, n) == [k \in 1..n |-> c]

IsTerminator(c) == c \in {".", "!", "?"}

IsSpace(c) == c \in {" ", "\n", "\t"}

SetMin(S) == CHOOSE x \in S : \A y \in S : x <= y

SetMax(S) == CHOOSE x \in S : \A y \in S : x >= y

\* String.prototype.trim
Trim(s) ==
  LET keep == {k \in 1..Len(s) : ~IsSpace(s[k])}
  IN IF keep = {} THEN <<>> ELSE SubSeq(s, SetMin(keep), SetMax(keep))

\* text.split(/[.!?]+/): the pieces between maximal runs of terminators,
\* empty pieces at a leading or trailing run included.  A piece starts at a
\* non-terminator that is first or follows a terminator, and runs up to the
\* next terminator or the end of the text.
PieceStarts(s) ==
  {k \in 1..Len(s) : ~IsTerminator(s[k]) /\ (k = 1 \/ IsTerminator(s[k - 1]))}

PieceEnd(s, a) ==
  SetMin({b \in a..Len(s) : b = Len(s) \/ IsTerminator(s[b + 1])})

NthStart(s, n) ==
  CHOOSE k \in PieceStarts(s) : Cardinality({j \in PieceStarts(s) : j <= k}) = n

SplitOnTerminators(s) ==
  IF Len(s) = 0 THEN << <<>> >>
  ELSE (IF IsTerminator(s[1]) THEN << <<>> >> ELSE <<>>)
       \o [n \in 1..Cardinality(PieceStarts(s)) |->
             SubSeq(s, NthStart(s, n), PieceEnd(s, NthStart(s, n)))]
       \o (IF IsTerminator(s[Len(s)]) THEN << <<>> >> ELSE <<>>)

\* .filter((s) => s.trim().length > 0)
Sentences(s) == SelectSeq(SplitOnTerminators(s), LAMBDA p : Len(Trim(p)) > 0)

EndsWithPeriod(s) == Len(s) > 0 /\ s[Len(s)] = "."

\* The for-loop as it would be if sealing a chunk emptied the buffer instead
\* of starting the next chunk with the sentence at hand.
RECURSIVE AccumulateDropsSentence(_, _, _, _, _)
AccumulateDropsSentence(sentences, k, currentChunk, chunks, maxChunkSize) ==
  IF k > Len(sentences) THEN [currentChunk |-> currentChunk, chunks |-> chunks]
  ELSE LET trimmedSentence == Trim(sentences[k])
       IN IF Len(currentChunk) + Len(trimmedSentence) > maxChunkSize /\ Len(currentChunk) > 0
          THEN AccumulateDropsSentence(sentences, k + 1, <<>>,
                          Append(chunks, Trim(currentChunk) \o <<".">>), maxChunkSize)
          ELSE AccumulateDropsSentence(sentences, k + 1,
                          currentChunk \o (IF currentChunk # <<>> THEN <<".", " ">> ELSE <<>>)
                                       \o trimmedSentence,
                          chunks, maxChunkSize)

\* The for-loop of splitTextIntoChunks over sentences[k..], with the running
\* buffer currentChunk and the chunks pushed so far.
RECURSIVE Accumulate(_, _, _, _, _)
Accumulate(sentences, k, currentChunk, chunks, maxChunkSize) ==
  IF k > Len(sentences) THEN [currentChunk |-> currentChunk, chunks |-> chunks]
  ELSE LET trimmedSentence == Trim(sentences[k])
       IN IF Len(currentChunk) + Len(trimmedSentence) > maxChunkSize /\ Len(currentChunk) > 0
          THEN Accumulate(sentences, k + 1, trimmedSentence,
                          Append(chunks, Trim(currentChunk) \o <<".">>), maxChunkSize)
          ELSE Accumulate(sentences, k + 1,
                          currentChunk \o (IF currentChunk # <<>> THEN <<".", " ">> ELSE <<>>)
                                       \o trimmedSentence,
                          chunks, maxChunkSize)

\* splitTextIntoChunks as it would be without the fallback to [text].
splitTextIntoChunksNoFallback(text_, maxChunkSize) ==
  LET r == Accumulate(Sentences(text_), 1, <<>>, <<>>, maxChunkSize)
  IN IF Trim(r.currentChunk) # <<>>
     THEN Append(r.chunks, Trim(r.currentChunk)
                           \o (IF EndsWithPeriod(r.currentChunk) THEN <<>> ELSE <<".">>))
     ELSE r.chunks

splitTextIntoChunks(text_, maxChunkSize) ==
  LET r == Accumulate(Sentences(text_), 1, <<>>, <<>>, maxChunkSize)
      chunks == IF Trim(r.currentChunk) # <<>>
                THEN Append(r.chunks, Trim(r.currentChunk)
                                      \o (IF EndsWithPeriod(r.currentChunk) THEN <<>> ELSE <<".">>))
                ELSE r.chunks
  IN IF Len(chunks) > 0 THEN chunks ELSE <<text_>>


StartsWith(s, prefix) == Len(s) >= Len(prefix) /\ SubSeq(s, 1, Len(prefix)) = prefix

\* ------------------------------------------------------------------- state
VARIABLES
  engineIsPlaying, engineIsPaused, currentUtterance,
  queue, started, synthPaused, events, synthVoices,
  utterances, timers,
  text, textChunks, chunkedText, currentChunk, isPlaying, isPaused,
  voices, selectedVoice, loadState,
  voiceCalls, onvoiceschanged,
  notices, loops, lastRun, lastOp, stoppedSinceSpeak,
  splitArgs, splitResult,
  prefArgs, prefResult,
  uploadedFiles, selectedFileForTTS, uploadNotices,
  profiles, documents, audio_sessions, dbActor, dbRead

vars ==
  <<engineIsPlaying, engineIsPaused, currentUtterance,
    queue, started, synthPaused, events, synthVoices,
    utterances, timers,
    text, textChunks, chunkedText, currentChunk, isPlaying, isPaused,
    voices, selectedVoice, loadState,
    voiceCalls, onvoiceschanged,
    notices, loops, lastRun, lastOp, stoppedSinceSpeak,
    splitArgs, splitResult,
    prefArgs, prefResult,
    uploadedFiles, selectedFileForTTS, uploadNotices,
    profiles, documents, audio_sessions, dbActor, dbRead>>

\* Every variable of the engine and the component; lastOp only records the
\* step taken, and stoppedSinceSpeak that stop was called and speak has not
\* been called since.
programVars ==
  <<engineIsPlaying, engineIsPaused, currentUtterance,
    queue, started, synthPaused, events, synthVoices,
    utterances, timers,
    text, textChunks, chunkedText, currentChunk, isPlaying, isPaused,
    voices, selectedVoice, loadState,
    voiceCalls, onvoiceschanged,
    notices, loops, lastRun, stoppedSinceSpeak>>

\* A direct call of splitTextIntoChunks and one of getPreferredVoices.
splitVars == <<splitArgs, splitResult>>

prefVars == <<prefArgs, prefResult>>

\* The state of FileUpload.
uploadVars == <<uploadedFiles, selectedFileForTTS, uploadNotices>>

\* The tables of the store, the user of the last statement and the rows it
\* returned.
storeVars == <<profiles, documents, audio_sessions, dbActor, dbRead>>

\* The whole state as one record, so that a handler's calls compose in order.
St ==
  [engineIsPlaying |-> engineIsPlaying, engineIsPaused |-> engineIsPaused,
   currentUtterance |-> currentUtterance,
   queue |-> queue, started |-> started, synthPaused |-> synthPaused,
   events |-> events, synthVoices |-> synthVoices,
   utterances |-> utterances, timers |-> timers,
   text |-> text, textChunks |-> textChunks, chunkedText |-> chunkedText,
   currentChunk |-> currentChunk, isPlaying |-> isPlaying, isPaused |-> isPaused,
   voices |-> voices, selectedVoice |-> selectedVoice, loadState |-> loadState,
   voiceCalls |-> voiceCalls, onvoiceschanged |-> onvoiceschanged,
   notices |-> notices, loops |-> loops, lastRun |-> lastRun]

Install(s) ==
  /\ engineIsPlaying' = s.engineIsPlaying
  /\ engineIsPaused' = s.engineIsPaused
  /\ currentUtterance' = s.currentUtterance
  /\ queue' = s.queue
  /\ started' = s.started
  /\ synthPaused' = s.synthPaused
  /\ events' = s.events
  /\ synthVoices' = s.synthVoices
  /\ utterances' = s.utterances
  /\ timers' = s.timers
  /\ text' = s.text
  /\ textChunks' = s.textChunks
  /\ chunkedText' = s.chunkedText
  /\ currentChunk' = s.currentChunk
  /\ isPlaying' = s.isPlaying
  /\ isPaused' = s.isPaused
  /\ voices' = s.voices
  /\ selectedVoice' = s.selectedVoice
  /\ loadState' = s.loadState
  /\ voiceCalls' = s.voiceCalls
  /\ onvoiceschanged' = s.onvoiceschanged
  /\ notices' = s.notices
  /\ loops' = s.loops
  /\ lastRun' = s.lastRun
  /\ stoppedSinceSpeak' = (lastOp' = "stop" \/ (stoppedSinceSpeak /\ lastOp' # "speak"))
  /\ UNCHANGED <<splitVars, prefVars, uploadVars, storeVars>>

\* null for currentUtterance and for selectedVoice
NoUtterance == 0

NoVoice == [voiceURI |-> "null", lang |-> <<>>, localService |-> FALSE]

\* The values a render of TTSControls hands to the callbacks it creates.
Closure(s) ==
  [isPlaying |-> s.isPlaying, isPaused |-> s.isPaused,
   currentChunk |-> s.currentChunk, textChunks |-> s.textChunks,
   selectedVoice |-> s.selectedVoice, text |-> s.text]

NoClosure ==
  [isPlaying |-> FALSE, isPaused |-> FALSE, currentChunk |-> 0, textChunks |-> <<>>,
   selectedVoice |-> NoVoice, text |-> <<>>]

\* Caller of speak that is not a play loop.
Client == 0

\* Caller of waitForVoices that is the component's loadVoices.
Loader == 1

\* null for synthesis.onvoiceschanged
NoHandler == 0

\* setTimeout(callback, delay): timers are kept in the order they were set.
SetTimeout(s, kind, delay, ref, closure) ==
  [s EXCEPT !.timers = Append(@, [kind |-> kind, delay |-> delay, ref |-> ref,
                                  closure |-> closure])]

\* A pending timer may run once no timer set before it is due before it.
Due(ts, k) == \A j \in 1..(k - 1) : ts[j].delay > ts[k].delay

RemoveAt(seq, k) == SubSeq(seq, 1, k - 1) \o SubSeq(seq, k + 1, Len(seq))

\* --------------------------------------------- window.speechSynthesis (queue)
\* speechSynthesis.cancel(): every utterance leaves the queue; each gets an
\* error event later, and the paused state is not changed.
SynthesisCancel(s) ==
  [s EXCEPT !.queue = <<>>,
            !.started = FALSE,
            !.events = @ \o [k \in 1..Len(s.queue) |->
                               [utt |-> s.queue[k], wasSpeaking |-> (k = 1 /\ s.started)]]]

SynthesisSpeak(s, id) == [s EXCEPT !.queue = Append(@, id)]

SynthesisPause(s) == [s EXCEPT !.synthPaused = TRUE]

SynthesisResume(s) == [s EXCEPT !.synthPaused = FALSE]

\* Error codes of a failure of the synthesizer itself.
FailureCodes == {"synthesis-failed"}

\* Error codes an utterance removed by cancel() may get.
CancelCodes(wasSpeaking) == IF wasSpeaking THEN {"interrupted", "canceled"} ELSE {"canceled"}


\* --------------------------------------------------------- TextToSpeechEngine
\* stop as it would be had the reset of isPaused been forgotten.
stopKeepsPaused(s) ==
  LET s1 == SynthesisCancel(s)
  IN [s1 EXCEPT !.engineIsPlaying = FALSE,
                !.currentUtterance = NoUtterance]

stop(s) ==
  LET s1 == SynthesisCancel(s)
  IN [s1 EXCEPT !.engineIsPlaying = FALSE,
                !.engineIsPaused = FALSE,
                !.currentUtterance = NoUtterance]

\* pause as it would be without the test of the engine's state.
pauseUnguarded(s) ==
  [SynthesisPause(s) EXCEPT !.engineIsPaused = TRUE]

pause(s) ==
  IF s.engineIsPlaying /\ ~s.engineIsPaused
  THEN [SynthesisPause(s) EXCEPT !.engineIsPaused = TRUE]
  ELSE s

resume(s) ==
  IF s.engineIsPaused
  THEN [SynthesisResume(s) EXCEPT !.engineIsPaused = FALSE]
  ELSE s

\* speak up to the return of the promise: the implicit stop and the timer.
\* The promise and the utterance it will create share the id.
speak(s, txt, owner) ==
  LET s1 == IF s.engineIsPlaying THEN stop(s) ELSE s
      id == Len(s1.utterances) + 1
      s2 == [s1 EXCEPT !.utterances =
                Append(@, [text |-> txt, owner |-> owner, status |-> "scheduled",
                           event |-> "none", error |-> "none"])]
  IN SetTimeout(s2, "settle", SettleDelay, id, NoClosure)

\* The callback of speak's timer as it would be if it submitted nothing.
SpeakTimeoutSubmitsNothing(s, id) == s

\* The callback of speak's timer: create the utterance and submit it.
SpeakTimeout(s, id) ==
  LET s1 == [s EXCEPT !.currentUtterance = id,
                      !.utterances[id].status = "submitted"]
  IN SynthesisSpeak(s1, id)

\* ------------------------------------------------- TTSControls: the play loop
\* The tail of handlePlay after the for loop.
LoopExit(s, L, k) ==
  LET c == L.closure
      s1 == IF c.currentChunk >= Len(c.textChunks) - 1
            THEN [s EXCEPT !.currentChunk = 0] ELSE s
  IN [s1 EXCEPT !.isPlaying = FALSE,
                !.notices = Append(@, "Playback completed"),
                !.lastRun = [from |-> c.currentChunk, n |-> Len(c.textChunks),
                             spoken |-> L.spoken, ended |-> TRUE],
                !.loops = IF k = 0 THEN @ ELSE [@ EXCEPT ![k] = [L EXCEPT !.pc = "done"]]]

\* The for loop as it would be without the test of isPlaying at its head.
RunLoopIgnoresIsPlaying(s, L, k) ==
  LET c == L.closure
  IN IF L.i < Len(c.textChunks)
     THEN LET L1 == [L EXCEPT !.pc = "speak", !.spoken = Append(@, L.i)]
              k1 == IF k = 0 THEN Len(s.loops) + 1 ELSE k
              s1 == [s EXCEPT !.currentChunk = L.i,
                              !.loops = IF k = 0 THEN Append(@, L1)
                                        ELSE [@ EXCEPT ![k] = L1]]
          IN speak(s1, c.textChunks[L.i + 1], k1)
     ELSE LoopExit(s, L, k)

\* The for loop of handlePlay at its head with index L.i, up to its next
\* await; k is the loop's place in loops, 0 while it has not yet suspended.
RunLoop(s, L, k) ==
  LET c == L.closure
  IN IF L.i < Len(c.textChunks) /\ c.isPlaying
     THEN LET L1 == [L EXCEPT !.pc = "speak", !.spoken = Append(@, L.i)]
              k1 == IF k = 0 THEN Len(s.loops) + 1 ELSE k
              s1 == [s EXCEPT !.currentChunk = L.i,
                              !.loops = IF k = 0 THEN Append(@, L1)
                                        ELSE [@ EXCEPT ![k] = L1]]
          IN speak(s1, c.textChunks[L.i + 1], k1)
     ELSE LoopExit(s, L, k)

\* The loop resumes after await speak: on success it waits out the
\* inter-chunk delay, on failure it continues with the next index at once.
AfterSpeak(s, k, status) ==
  LET L == s.loops[k]
  IN IF status = "resolved"
     THEN SetTimeout([s EXCEPT !.loops[k].pc = "gap"], "gap", InterChunkDelay, k, NoClosure)
     ELSE RunLoop(s, [L EXCEPT !.i = @ + 1], k)

GapTimeout(s, k) == RunLoop(s, [s.loops[k] EXCEPT !.i = @ + 1], k)

\* resolve() / reject(): settle the promise of utterance id, once, and run
\* the continuation of whoever awaits it.
Settle(s, id, status, code) ==
  IF s.utterances[id].status # "submitted" THEN s
  ELSE LET s1 == [s EXCEPT !.utterances[id].status = status,
                           !.utterances[id].error = code]
       IN IF s.utterances[id].owner = Client THEN s1
          ELSE AfterSpeak(s1, s.utterances[id].owner, status)

\* ------------------------------------- TextToSpeechEngine: utterance callbacks
onstart(s, id) ==
  [s EXCEPT !.engineIsPlaying = TRUE, !.engineIsPaused = FALSE]

onend(s, id) ==
  Settle([s EXCEPT !.engineIsPlaying = FALSE,
                   !.engineIsPaused = FALSE,
                   !.currentUtterance = NoUtterance],
         id, "resolved", "none")

\* onerror as it would be without the test for "canceled".
onerrorAlwaysRejects(s, id, code) ==
  LET s1 == [s EXCEPT !.engineIsPlaying = FALSE,
                      !.engineIsPaused = FALSE,
                      !.currentUtterance = NoUtterance]
  IN Settle(s1, id, "rejected", code)

onerror(s, id, code) ==
  LET s1 == [s EXCEPT !.engineIsPlaying = FALSE,
                      !.engineIsPaused = FALSE,
                      !.currentUtterance = NoUtterance]
  IN IF code = "canceled"
     THEN Settle(s1, id, "resolved", "none")
     ELSE Settle(s1, id, "rejected", code)

\* ----------------------------------------------------- TTSControls: handlers
\* A handler reads the component's state from c, the values of the render
\* that created it; what it sets goes to the state s.  handlePlay runs
\* without suspending until the first await speak, so the setIsPlaying(true)
\* at its head and a setIsPlaying(false) at its tail land in one update when
\* the loop exits at once.
handlePlay(s, c) ==
  IF c.selectedVoice = NoVoice \/ c.text = <<>> THEN s
  ELSE LET s1 == [s EXCEPT !.isPlaying = TRUE, !.isPaused = FALSE]
       IN RunLoop(s1, [i |-> c.currentChunk, closure |-> c, pc |-> "run",
                       spoken |-> <<>>], 0)

\* The timer set by handlePrevious and handleNext calls the handlePlay of the
\* same render, so the restart reads the index from before the move.
handlePrevious(s, c) ==
  IF c.currentChunk > 0
  THEN LET s1 == [s EXCEPT !.currentChunk = c.currentChunk - 1]
       IN IF c.isPlaying
          THEN SetTimeout(stop(s1), "restart", RestartDelay, 0, c)
          ELSE s1
  ELSE s

\* handleNext as it would be without the test for the last index.
handleNextUnguarded(s, c) ==
  LET s1 == [s EXCEPT !.currentChunk = c.currentChunk + 1]
  IN IF c.isPlaying THEN SetTimeout(stop(s1), "restart", RestartDelay, 0, c) ELSE s1

handleNext(s, c) ==
  IF c.currentChunk < Len(c.textChunks) - 1
  THEN LET s1 == [s EXCEPT !.currentChunk = c.currentChunk + 1]
       IN IF c.isPlaying
          THEN SetTimeout(stop(s1), "restart", RestartDelay, 0, c)
          ELSE s1
  ELSE s

handlePause(s) == [pause(s) EXCEPT !.isPaused = TRUE]

handleResume(s) == [resume(s) EXCEPT !.isPaused = FALSE]

\* handleStop as it would be without setCurrentChunk(0).
handleStopKeepsIndex(s) ==
  [stop(s) EXCEPT !.isPlaying = FALSE, !.isPaused = FALSE]

handleStop(s) ==
  [stop(s) EXCEPT !.isPlaying = FALSE, !.isPaused = FALSE, !.currentChunk = 0]

\* handleKeyPress as it would be if Space paused whenever not paused.
handleKeyPressPausesWhenIdle(s, c) ==
  IF ~c.isPaused /\ c.currentChunk > 0 THEN handlePause(s)
  ELSE IF c.isPaused THEN handleResume(s)
  ELSE handlePlay(s, c)

\* AudioPlayer: the Space shortcut and the main button choose alike between
\* onPause and onPlay, and onPlay is handleResume when paused.
handleKeyPress(s, c) ==
  IF c.isPlaying /\ ~c.isPaused THEN handlePause(s)
  ELSE IF c.isPaused THEN handleResume(s)
  ELSE handlePlay(s, c)


\* ------------------------------------------------------------- voice catalog
getPreferredVoices(vs) ==
  LET IsEnglish(v) == StartsWith(v.lang, <<"e", "n">>)
      IsLocal(v) == v.localService
      NotEnglish(v) == ~IsEnglish(v)
      localVoices == SelectSeq(vs, IsLocal)
      englishVoices == SelectSeq(vs, IsEnglish)
  IN IF Len(localVoices) > 0
     THEN SelectSeq(localVoices, IsEnglish) \o SelectSeq(localVoices, NotEnglish)
     ELSE IF Len(englishVoices) > 0 THEN englishVoices ELSE vs

\* The rest of loadVoices once waitForVoices has resolved with vs.
VoicesLoaded(s, vs) ==
  LET preferredVoices == getPreferredVoices(vs)
      s1 == [s EXCEPT !.voices = preferredVoices, !.loadState = "done"]
  IN IF Len(preferredVoices) > 0
     THEN [s1 EXCEPT !.selectedVoice = preferredVoices[1]]
     ELSE s1

\* resolve(vs) of the promise of call id of waitForVoices: it settles the
\* promise once, and loadVoices goes on if it is the one awaiting it.
ResolveVoices(s, id, vs) ==
  IF s.voiceCalls[id].status # "pending" THEN s
  ELSE LET s1 == [s EXCEPT !.voiceCalls[id].status = "resolved",
                           !.voiceCalls[id].result = vs]
       IN IF s.voiceCalls[id].owner = Loader THEN VoicesLoaded(s1, vs) ELSE s1

\* waitForVoices: resolve at once with a non-empty catalog, else assign the
\* handler that resolves this call to synthesis.onvoiceschanged.
waitForVoices(s, owner) ==
  LET id == Len(s.voiceCalls) + 1
      s1 == [s EXCEPT !.voiceCalls =
                Append(@, [owner |-> owner, status |-> "pending", result |-> <<>>])]
  IN IF Len(s.synthVoices) > 0
     THEN ResolveVoices(s1, id, s.synthVoices)
     ELSE [s1 EXCEPT !.onvoiceschanged = id]

\* The catalog becomes vs and the voiceschanged event runs the handler
\* assigned to onvoiceschanged, which reads the catalog anew.
VoicesChangedEvent(s, vs) ==
  LET s1 == [s EXCEPT !.synthVoices = vs]
  IN IF s.onvoiceschanged = NoHandler THEN s1
     ELSE ResolveVoices(s1, s.onvoiceschanged, s1.synthVoices)

\* ------------------------------------------------------------------- inputs
\* The voices the platform offers once its catalog is ready.
Catalog ==
  << [voiceURI |-> "fr-remote", lang |-> <<"f", "r", "-", "F", "R">>, localService |-> FALSE],
     [voiceURI |-> "en-remote", lang |-> <<"e", "n", "-", "U", "S">>, localService |-> FALSE],
     [voiceURI |-> "en-remote-gb", lang |-> <<"e", "n", "-", "G", "B">>, localService |-> FALSE] >>

\* Catalogs the platform may offer: remote voices only, a local voice among
\* them, and no English voice.
CatalogLocal ==
  << [voiceURI |-> "fr-local", lang |-> <<"f", "r", "-", "F", "R">>, localService |-> TRUE],
     [voiceURI |-> "en-remote", lang |-> <<"e", "n", "-", "U", "S">>, localService |-> FALSE] >>

CatalogForeign ==
  << [voiceURI |-> "de-remote", lang |-> <<"d", "e", "-", "D", "E">>, localService |-> FALSE] >>

Catalogs == {Catalog, CatalogLocal, CatalogForeign}

\* Extracted texts of one, two and three chunks at the default chunk size.
TextOne == <<"H", "i", " ", "y", "o", "u", ".">>

TextTwo == Rep("a", 160) \o <<"!", " ">> \o Rep("b", 160) \o <<".">>

TextThree ==
  Rep("a", 160) \o <<".", " ">> \o Rep("b", 160) \o <<"?", " ">> \o Rep("c", 160) \o <<".">>

Texts == {TextOne, TextTwo, TextThree}

\* Texts the engine's caller asks it to speak.
ClientTexts == {<<"H", "i", ".">>}

\* -------------------------------------------------------------------- Init
InitProgram ==
  /\ engineIsPlaying = FALSE
  /\ engineIsPaused = FALSE
  /\ currentUtterance = NoUtterance
  /\ queue = <<>>
  /\ started = FALSE
  /\ synthPaused = FALSE
  /\ events = <<>>
  /\ synthVoices \in {<<>>, Catalog}
  /\ utterances = <<>>
  /\ timers = <<>>
  /\ text \in Texts
  /\ textChunks = <<>>
  /\ chunkedText = <<>>
  /\ currentChunk = 0
  /\ isPlaying = FALSE
  /\ isPaused = FALSE
  /\ voices = <<>>
  /\ selectedVoice = NoVoice
  /\ loadState = "init"
  /\ voiceCalls = <<>>
  /\ onvoiceschanged = NoHandler
  /\ notices = <<>>
  /\ loops = <<>>
  /\ lastRun = [from |-> 0, n |-> 0, spoken |-> <<>>, ended |-> FALSE]
  /\ lastOp = "init"
  /\ stoppedSinceSpeak = FALSE

\* splitTextIntoChunks has not been called directly.
NoSplitArgs == [text |-> <<>>, maxChunkSize |-> DefaultMaxChunkSize]

InitSplit ==
  /\ splitArgs = NoSplitArgs
  /\ splitResult = <<>>

InitPreferred ==
  /\ prefArgs = <<>>
  /\ prefResult = <<>>

\* null for selectedFileForTTS; undefined for extractedText
NoFile == [id |-> 0]

NoText == <<"undefined">>

InitUpload ==
  /\ uploadedFiles = <<>>
  /\ selectedFileForTTS = NoFile
  /\ uploadNotices = <<>>

\* No user has issued a statement yet.
NoUser == "nobody"

InitStore ==
  /\ profiles = {}
  /\ documents = {}
  /\ audio_sessions = {}
  /\ dbActor = NoUser
  /\ dbRead = {}

Init ==
  /\ InitProgram
  /\ InitSplit
  /\ InitPreferred
  /\ InitUpload
  /\ InitStore

\* ------------------------------------------- actions: the engine and its caller
\* lastOp names the step taken last.
CallSpeak ==
  /\ Len(utterances) < MaxUtterances
  /\ lastOp' = "speak"
  /\ \E txt \in ClientTexts : Install(speak(St, txt, Client))

CallPause ==
  /\ lastOp' = "pause"
  /\ Install(pause(St))

CallResume ==
  /\ lastOp' = "resume"
  /\ Install(resume(St))

CallStop ==
  /\ lastOp' = "stop"
  /\ Install(stop(St))

\* A pending timer runs its callback.
TimerFires ==
  \E k \in DOMAIN timers :
    /\ Due(timers, k)
    /\ lastOp' = "timer"
    /\ LET t == timers[k]
           s == [St EXCEPT !.timers = RemoveAt(@, k)]
       IN Install(CASE t.kind = "settle" -> SpeakTimeout(s, t.ref)
                    [] t.kind = "gap" -> GapTimeout(s, t.ref)
                    [] t.kind = "restart" -> handlePlay(s, t.closure))

\* The synthesizer begins the utterance at the head of its queue.
SynthStart ==
  /\ queue # <<>>
  /\ ~started
  /\ ~synthPaused
  /\ lastOp' = "start"
  /\ Install(onstart([St EXCEPT !.started = TRUE], Head(queue)))

\* The synthesizer finishes the utterance it is speaking.
SynthEnd ==
  /\ queue # <<>>
  /\ started
  /\ ~synthPaused
  /\ lastOp' = "end"
  /\ LET id == Head(queue)
     IN Install(onend([St EXCEPT !.queue = Tail(@), !.started = FALSE,
                                 !.utterances[id].event = "end"], id))

\* The synthesizer fails on the utterance at the head of its queue.
SynthFail ==
  /\ queue # <<>>
  /\ lastOp' = "error"
  /\ \E code \in FailureCodes :
       LET id == Head(queue)
       IN Install(onerror([St EXCEPT !.queue = Tail(@), !.started = FALSE,
                                     !.utterances[id].event = code], id, code))

\* The error event of an utterance that cancel() removed is delivered.
SynthCancelEvent ==
  /\ events # <<>>
  /\ lastOp' = "error"
  /\ LET e == Head(events)
     IN \E code \in CancelCodes(e.wasSpeaking) :
          Install(onerror([St EXCEPT !.events = Tail(@),
                                     !.utterances[e.utt].event = code], e.utt, code))

NextEngine ==
  \/ CallSpeak
  \/ CallPause
  \/ CallResume
  \/ CallStop
  \/ TimerFires
  \/ SynthStart
  \/ SynthEnd
  \/ SynthFail
  \/ SynthCancelEvent

InitEngine == Init /\ text = TextOne /\ synthVoices = <<>>

SpecEngine == InitEngine /\ [][NextEngine]_vars

\* The event loop runs the callback of a timer that is due.
LiveSpecEngine == SpecEngine /\ WF_vars(TimerFires)


\* --------------------------------------------------- actions: the component
\* The effects of a render have run: events reach the handlers only then.
Ready == loadState # "init" /\ chunkedText = text

\* The chunking effect as it would be without setCurrentChunk(0).
ChunkingEffectKeepsIndex ==
  /\ chunkedText # text
  /\ lastOp' = "chunking"
  /\ Install(IF text # <<>>
             THEN [St EXCEPT !.textChunks = splitTextIntoChunks(text, DefaultMaxChunkSize),
                             !.chunkedText = text]
             ELSE [St EXCEPT !.chunkedText = text])

\* useEffect(..., [text]): split the text and go back to the first chunk.
ChunkingEffect ==
  /\ chunkedText # text
  /\ lastOp' = "chunking"
  /\ Install(IF text # <<>>
             THEN [St EXCEPT !.textChunks = splitTextIntoChunks(text, DefaultMaxChunkSize),
                             !.currentChunk = 0,
                             !.chunkedText = text]
             ELSE [St EXCEPT !.chunkedText = text])

\* useEffect loadVoices with waitForVoices: resolve at once with a non-empty
\* catalog, else wait for onvoiceschanged.
LoadVoicesEffect ==
  /\ loadState = "init"
  /\ lastOp' = "loadVoices"
  /\ Install(waitForVoices([St EXCEPT !.loadState = "waiting"], Loader))

\* The platform's catalog becomes ready and onvoiceschanged fires.
VoicesChanged ==
  /\ synthVoices = <<>>
  /\ lastOp' = "voiceschanged"
  /\ Install(VoicesChangedEvent(St, Catalog))

\* The parent hands the component the text of another file.
TextChange ==
  /\ Ready
  /\ lastOp' = "text"
  /\ \E t \in Texts \ {text} : Install([St EXCEPT !.text = t])

\* The user picks a voice in the settings panel.
SelectVoice ==
  /\ Ready
  /\ lastOp' = "voice"
  /\ \E k \in DOMAIN voices :
       /\ voices[k] # selectedVoice
       /\ Install([St EXCEPT !.selectedVoice = voices[k]])

\* Space, or the main button of the player.
PressPlayPause ==
  /\ Ready
  /\ Len(notices) < MaxNotices
  /\ lastOp' = "playpause"
  /\ Install(handleKeyPress(St, Closure(St)))

\* Ctrl+S, or the stop button.
PressStop ==
  /\ Ready
  /\ lastOp' = "stop"
  /\ Install(handleStop(St))

\* Shift+ArrowLeft, or the previous button.
PressPrevious ==
  /\ Ready
  /\ lastOp' = "previous"
  /\ Install(handlePrevious(St, Closure(St)))

\* Shift+ArrowRight, or the next button.
PressNext ==
  /\ Ready
  /\ lastOp' = "next"
  /\ Install(handleNext(St, Closure(St)))

Next ==
  \/ ChunkingEffect
  \/ LoadVoicesEffect
  \/ VoicesChanged
  \/ TextChange
  \/ SelectVoice
  \/ PressPlayPause
  \/ PressStop
  \/ PressPrevious
  \/ PressNext

Spec == Init /\ [][Next]_vars

\* No play loop ever suspends and the engine is never asked to speak, so no
\* timer or synthesizer event is ever pending under Spec.
NothingPending ==
  /\ loops = <<>>
  /\ timers = <<>>
  /\ queue = <<>>
  /\ events = <<>>
  /\ utterances = <<>>
  /\ ~isPlaying

\* ------------------------------------------- waitForVoices called directly
InitVoices ==
  /\ Init
  /\ text = TextOne

CallWaitForVoices ==
  /\ Len(voiceCalls) < MaxVoiceCalls
  /\ lastOp' = "waitForVoices"
  /\ Install(waitForVoices(St, Client))

\* The platform's catalog becomes ready, or changes later on, and
\* voiceschanged fires.
CatalogChanged ==
  \E vs \in Catalogs :
    /\ vs # synthVoices
    /\ lastOp' = "voiceschanged"
    /\ Install(VoicesChangedEvent(St, vs))

NextVoices ==
  \/ CallWaitForVoices
  \/ CatalogChanged

SpecVoices == InitVoices /\ [][NextVoices]_vars

\* ------------------------------------- splitTextIntoChunks called directly
\* Characters of the texts: letters, terminators and a blank.
Alphabet == {"a", "b", ".", "!", " "}

BoundedTexts == UNION {[1..n -> Alphabet] : n \in 0..MaxTextLen}

\* "A. B. C."
ExampleABC == <<"A", ".", " ", "B", ".", " ", "C", ".">>

\* "Hello world. How are you? Fine!"
ExampleHello ==
  <<"H", "e", "l", "l", "o", " ", "w", "o", "r", "l", "d", ".", " ",
    "H", "o", "w", " ", "a", "r", "e", " ", "y", "o", "u", "?", " ",
    "F", "i", "n", "e", "!">>

SplitInputs ==
  [text : BoundedTexts, maxChunkSize : 1..MaxSplitSize]
    \cup [text : {ExampleABC, ExampleHello, TextOne},
          maxChunkSize : {3, 12, DefaultMaxChunkSize}]

InitChunker ==
  /\ InitProgram
  /\ text = TextOne
  /\ synthVoices = <<>>
  /\ splitArgs \in SplitInputs
  /\ splitResult = <<>>
  /\ InitPreferred
  /\ InitUpload
  /\ InitStore

\* splitTextIntoChunks(text, maxChunkSize) is called and returns.
CallSplit ==
  /\ lastOp = "init"
  /\ lastOp' = "split"
  /\ splitResult' = splitTextIntoChunks(splitArgs.text, splitArgs.maxChunkSize)
  /\ UNCHANGED <<programVars, splitArgs, prefVars, uploadVars, storeVars>>

NextChunker == CallSplit

SpecChunker == InitChunker /\ [][NextChunker]_vars


\* -------------------------------------- getPreferredVoices called directly
\* Voices a platform may offer: local and remote, English and not.
VoicePool ==
  { [voiceURI |-> "en-local", lang |-> <<"e", "n", "-", "U", "S">>, localService |-> TRUE],
    [voiceURI |-> "fr-local", lang |-> <<"f", "r", "-", "F", "R">>, localService |-> TRUE],
    [voiceURI |-> "en-remote", lang |-> <<"e", "n", "-", "U", "S">>, localService |-> FALSE],
    [voiceURI |-> "en-remote-gb", lang |-> <<"e", "n", "-", "G", "B">>, localService |-> FALSE],
    [voiceURI |-> "fr-remote", lang |-> <<"f", "r", "-", "F", "R">>, localService |-> FALSE] }

\* Lists of distinct voices.
VoiceLists ==
  UNION {{vs \in [1..n -> VoicePool] : \A i, j \in 1..n : vs[i] = vs[j] => i = j}
           : n \in 0..MaxVoices}

InitPreferredVoices ==
  /\ InitProgram
  /\ text = TextOne
  /\ synthVoices = <<>>
  /\ InitSplit
  /\ prefArgs \in VoiceLists
  /\ prefResult = <<>>
  /\ InitUpload
  /\ InitStore

\* getPreferredVoices(voices) is called and returns.
CallGetPreferredVoices ==
  /\ lastOp = "init"
  /\ lastOp' = "preferred"
  /\ prefResult' = getPreferredVoices(prefArgs)
  /\ UNCHANGED <<programVars, splitVars, prefArgs, uploadVars, storeVars>>

NextPreferred == CallGetPreferredVoices

SpecPreferred == InitPreferredVoices /\ [][NextPreferred]_vars
\* cleanExtractedText: every run of whitespace becomes one blank, then trim.
cleanExtractedText(raw) ==
  LET kept == {k \in 1..Len(raw) : ~(IsSpace(raw[k]) /\ k > 1 /\ IsSpace(raw[k - 1]))}
      nth(n) == CHOOSE k \in kept : Cardinality({j \in kept : j <= k}) = n
  IN Trim([n \in 1..Cardinality(kept) |->
             IF IsSpace(raw[nth(n)]) THEN " " ELSE raw[nth(n)]])

\* file.type of a dropped file, and what a readable file may contain.
FileTypes == {"text/plain", "application/pdf", "image/png"}

SupportedTypes == {"text/plain", "application/pdf"}

RawTexts == { <<"H", "i", " ", " ", "y", "o", "u", ".", "\n">>, <<" ", "\n">> }

\* A string that is neither undefined nor empty.
Truthy(s) == s # NoText /\ s # <<>>

\* setUploadedFiles(prev => prev.map(...)): the entry of file id is replaced
\* if the file is still in the list.
UpdateFile(files, id, f) == IF files[id].listed THEN [files EXCEPT ![id] = f] ELSE files

\* The catch of processFile as it would be if it only showed the notice.
processFileCatchKeepsStatus(files, id) == files

\* The catch of processFile: the entry gets status "error".
processFileCatch(files, id) ==
  UpdateFile(files, id, [files[id] EXCEPT !.status = "error", !.progress = 0,
                                          !.error = <<"F", "a", "i", "l", "e", "d">>])

\* onDrop with one accepted file, up to the first await of processFile.
\* uploadedFiles keeps every file dropped: listed is false once removeFile
\* has taken it out of the list, pc is the place of its processFile.
OnDrop ==
  /\ Len(uploadedFiles) < MaxFiles
  /\ lastOp' = "drop"
  /\ \E type \in FileTypes :
       uploadedFiles' = Append(uploadedFiles,
         [id |-> Len(uploadedFiles) + 1, type |-> type, status |-> "processing",
          progress |-> 25, extractedText |-> NoText, error |-> NoText,
          cleanedText |-> NoText, listed |-> TRUE, pc |-> "extracting"])
  /\ UNCHANGED <<selectedFileForTTS, uploadNotices>>
  /\ UNCHANGED <<programVars, splitVars, prefVars, storeVars>>

\* extractTextFromFile resolves with the raw text of a supported file.
ExtractionSucceeds ==
  \E id \in DOMAIN uploadedFiles :
    /\ uploadedFiles[id].pc = "extracting"
    /\ uploadedFiles[id].type \in SupportedTypes
    /\ lastOp' = "extracted"
    /\ \E raw \in RawTexts :
         LET files == [uploadedFiles EXCEPT ![id].pc = "saving",
                                            ![id].cleanedText = cleanExtractedText(raw)]
         IN uploadedFiles' = UpdateFile(files, id, [files[id] EXCEPT !.progress = 75])
    /\ UNCHANGED <<selectedFileForTTS, uploadNotices>>
    /\ UNCHANGED <<programVars, splitVars, prefVars, storeVars>>

\* extractTextFromFile throws: the type is not supported, or reading or
\* parsing the file failed.
ExtractionFails ==
  \E id \in DOMAIN uploadedFiles :
    /\ uploadedFiles[id].pc = "extracting"
    /\ lastOp' = "extractionFailed"
    /\ uploadedFiles' = processFileCatch([uploadedFiles EXCEPT ![id].pc = "failed"], id)
    /\ uploadNotices' = Append(uploadNotices, [file |-> id, title |-> "Extraction failed"])
    /\ UNCHANGED selectedFileForTTS
    /\ UNCHANGED <<programVars, splitVars, prefVars, storeVars>>

\* getUser and the insert into documents return; an error of the insert is
\* only logged.  The timer of the last step is set.
SaveReturns ==
  \E id \in DOMAIN uploadedFiles :
    /\ uploadedFiles[id].pc = "saving"
    /\ lastOp' = "saved"
    /\ uploadedFiles' = [uploadedFiles EXCEPT ![id].pc = "finishing"]
    /\ UNCHANGED <<selectedFileForTTS, uploadNotices>>
    /\ UNCHANGED <<programVars, splitVars, prefVars, storeVars>>

\* The timer of processFile: the entry is completed with the cleaned text.
CompleteTimeout ==
  \E id \in DOMAIN uploadedFiles :
    /\ uploadedFiles[id].pc = "finishing"
    /\ lastOp' = "completed"
    /\ LET files == [uploadedFiles EXCEPT ![id].pc = "done"]
       IN uploadedFiles' =
            UpdateFile(files, id, [files[id] EXCEPT !.status = "completed", !.progress = 100,
                                                    !.extractedText = files[id].cleanedText])
    /\ uploadNotices' = Append(uploadNotices,
                               [file |-> id, title |-> "Text extracted successfully"])
    /\ UNCHANGED selectedFileForTTS
    /\ UNCHANGED <<programVars, splitVars, prefVars, storeVars>>

RemoveFile ==
  \E id \in DOMAIN uploadedFiles :
    /\ uploadedFiles[id].listed
    /\ lastOp' = "remove"
    /\ uploadedFiles' = [uploadedFiles EXCEPT ![id].listed = FALSE]
    /\ selectedFileForTTS' =
         IF selectedFileForTTS # NoFile /\ selectedFileForTTS.id = id
         THEN NoFile ELSE selectedFileForTTS
    /\ UNCHANGED uploadNotices
    /\ UNCHANGED <<programVars, splitVars, prefVars, storeVars>>

\* "Convert to Speech": the button is rendered for entries with a text.
SelectFileForTTS ==
  \E id \in DOMAIN uploadedFiles :
    /\ uploadedFiles[id].listed
    /\ Truthy(uploadedFiles[id].extractedText)
    /\ lastOp' = "select"
    /\ selectedFileForTTS' = uploadedFiles[id]
    /\ selectedFileForTTS' # selectedFileForTTS
    /\ UNCHANGED <<uploadedFiles, uploadNotices>>
    /\ UNCHANGED <<programVars, splitVars, prefVars, storeVars>>

\* TTSControls is rendered, with the text of the selected file.
TTSRendered == selectedFileForTTS # NoFile /\ Truthy(selectedFileForTTS.extractedText)

NextUpload ==
  \/ OnDrop
  \/ ExtractionSucceeds
  \/ ExtractionFails
  \/ SaveReturns
  \/ CompleteTimeout
  \/ RemoveFile
  \/ SelectFileForTTS

InitFileUpload == Init /\ text = TextOne /\ synthVoices = <<>>

SpecUpload == InitFileUpload /\ [][NextUpload]_vars

\* ------------------------------------------------- the store and its policies
\* auth.users, and the values of the columns a statement may write.
Users == {"A", "B"}

DocumentIds == {"d1", "d2"}

SessionIds == 1..MaxSessions

ColumnValues == {0, 1}

\* USING / WITH CHECK (auth.uid() = id) of the policies on profiles, and
\* (auth.uid() = user_id) of those on documents and audio_sessions.
ProfilePolicy(uid, row) == uid = row.id

OwnerPolicy(uid, row) == uid = row.user_id

\* REFERENCES public.documents(id): the check of a foreign key is not
\* subject to row security.
DocumentExists(docs, id) == \E d \in docs : d.id = id

\* The delete of a document as it would be without ON DELETE CASCADE being
\* carried out.
SessionsKeptWithoutCascade(sessions, deleted) == sessions

\* ON DELETE CASCADE of audio_sessions.document_id: the rows that reference
\* a deleted document go with it, whoever owns them.
SessionsKept(sessions, deleted) ==
  {s \in sessions : ~\E d \in deleted : d.id = s.document_id}

\* The rows a select returns, tagged with their table.
Rows(table, rows) == {[table |-> table, row |-> r] : r \in rows}

SelectProfiles ==
  \E uid \in Users :
    /\ lastOp' = "selectProfiles"
    /\ dbActor' = uid
    /\ dbRead' = Rows("profiles", {r \in profiles : ProfilePolicy(uid, r)})
    /\ UNCHANGED <<profiles, documents, audio_sessions>>
    /\ UNCHANGED <<programVars, splitVars, prefVars, uploadVars>>

SelectDocuments ==
  \E uid \in Users :
    /\ lastOp' = "selectDocuments"
    /\ dbActor' = uid
    /\ dbRead' = Rows("documents", {r \in documents : OwnerPolicy(uid, r)})
    /\ UNCHANGED <<profiles, documents, audio_sessions>>
    /\ UNCHANGED <<programVars, splitVars, prefVars, uploadVars>>

SelectSessions ==
  \E uid \in Users :
    /\ lastOp' = "selectSessions"
    /\ dbActor' = uid
    /\ dbRead' = Rows("audio_sessions", {r \in audio_sessions : OwnerPolicy(uid, r)})
    /\ UNCHANGED <<profiles, documents, audio_sessions>>
    /\ UNCHANGED <<programVars, splitVars, prefVars, uploadVars>>

\* insert into profiles: the primary key must be new and the row must pass
\* WITH CHECK, else the statement fails and writes nothing.
InsertProfile ==
  \E uid \in Users, id \in Users, v \in ColumnValues :
    LET row == [id |-> id, full_name |-> v]
    IN /\ lastOp' = "insertProfile"
       /\ dbActor' = uid
       /\ dbRead' = {}
       /\ profiles' = IF ProfilePolicy(uid, row) /\ ~\E r \in profiles : r.id = id
                      THEN profiles \cup {row} ELSE profiles
       /\ UNCHANGED <<documents, audio_sessions>>
       /\ UNCHANGED <<programVars, splitVars, prefVars, uploadVars>>

\* update of profiles: USING selects the rows, and the new row must pass the
\* same expression.
UpdateProfile ==
  \E uid \in Users, id \in Users, v \in ColumnValues :
    /\ lastOp' = "updateProfile"
    /\ dbActor' = uid
    /\ dbRead' = {}
    /\ profiles' = {IF r.id = id /\ ProfilePolicy(uid, r) THEN [r EXCEPT !.full_name = v]
                     ELSE r : r \in profiles}
    /\ UNCHANGED <<documents, audio_sessions>>
    /\ UNCHANGED <<programVars, splitVars, prefVars, uploadVars>>

DeleteProfile ==
  \E uid \in Users, id \in Users :
    /\ lastOp' = "deleteProfile"
    /\ dbActor' = uid
    /\ dbRead' = {}
    /\ profiles' = {r \in profiles : ~(r.id = id /\ ProfilePolicy(uid, r))}
    /\ UNCHANGED <<documents, audio_sessions>>
    /\ UNCHANGED <<programVars, splitVars, prefVars, uploadVars>>

InsertDocument ==
  \E uid \in Users, owner \in Users, id \in DocumentIds :
    LET row == [id |-> id, user_id |-> owner, extracted_text |-> 0]
    IN /\ ~DocumentExists(documents, id)
       /\ lastOp' = "insertDocument"
       /\ dbActor' = uid
       /\ dbRead' = {}
       /\ documents' = IF OwnerPolicy(uid, row) THEN documents \cup {row} ELSE documents
       /\ UNCHANGED <<profiles, audio_sessions>>
       /\ UNCHANGED <<programVars, splitVars, prefVars, uploadVars>>

\* update of documents by id: the text, or an attempt to hand the row to
\* another user, which the check refuses.
UpdateDocument ==
  \E uid \in Users, id \in DocumentIds, owner \in Users, v \in ColumnValues :
    /\ lastOp' = "updateDocument"
    /\ dbActor' = uid
    /\ dbRead' = {}
    /\ LET new(r) == [r EXCEPT !.user_id = owner, !.extracted_text = v]
           hit == {r \in documents : r.id = id /\ OwnerPolicy(uid, r)}
       IN documents' = IF \A r \in hit : OwnerPolicy(uid, new(r))
                       THEN (documents \ hit) \cup {new(r) : r \in hit}
                       ELSE documents
    /\ UNCHANGED <<profiles, audio_sessions>>
    /\ UNCHANGED <<programVars, splitVars, prefVars, uploadVars>>

\* delete from documents where id = ...: handleDeleteDocument, or any client.
DeleteDocument ==
  \E uid \in Users, id \in DocumentIds :
    LET hit == {r \in documents : r.id = id /\ OwnerPolicy(uid, r)}
        kept == SessionsKept(audio_sessions, hit)
    IN /\ lastOp' = IF kept # audio_sessions THEN "deleteDocumentCascade" ELSE "deleteDocument"
       /\ dbActor' = uid
       /\ dbRead' = {}
       /\ documents' = documents \ hit
       /\ audio_sessions' = kept
       /\ UNCHANGED profiles
       /\ UNCHANGED <<programVars, splitVars, prefVars, uploadVars>>

\* insert into audio_sessions: the row must pass WITH CHECK and reference an
\* existing document.
InsertSession ==
  \E uid \in Users, owner \in Users, id \in SessionIds, doc \in DocumentIds :
    LET row == [id |-> id, user_id |-> owner, document_id |-> doc]
    IN /\ ~\E s \in audio_sessions : s.id = id
       /\ lastOp' = "insertSession"
       /\ dbActor' = uid
       /\ dbRead' = {}
       /\ audio_sessions' = IF OwnerPolicy(uid, row) /\ DocumentExists(documents, doc)
                            THEN audio_sessions \cup {row} ELSE audio_sessions
       /\ UNCHANGED <<profiles, documents>>
       /\ UNCHANGED <<programVars, splitVars, prefVars, uploadVars>>

\* update of audio_sessions by id: another document, or another owner.
UpdateSession ==
  \E uid \in Users, id \in SessionIds, owner \in Users, doc \in DocumentIds :
    /\ lastOp' = "updateSession"
    /\ dbActor' = uid
    /\ dbRead' = {}
    /\ LET new(r) == [r EXCEPT !.user_id = owner, !.document_id = doc]
           hit == {r \in audio_sessions : r.id = id /\ OwnerPolicy(uid, r)}
       IN audio_sessions' =
            IF DocumentExists(documents, doc) /\ \A r \in hit : OwnerPolicy(uid, new(r))
            THEN (audio_sessions \ hit) \cup {new(r) : r \in hit}
            ELSE audio_sessions
    /\ UNCHANGED <<profiles, documents>>
    /\ UNCHANGED <<programVars, splitVars, prefVars, uploadVars>>

DeleteSession ==
  \E uid \in Users, id \in SessionIds :
    /\ lastOp' = "deleteSession"
    /\ dbActor' = uid
    /\ dbRead' = {}
    /\ audio_sessions' = {r \in audio_sessions : ~(r.id = id /\ OwnerPolicy(uid, r))}
    /\ UNCHANGED <<profiles, documents>>
    /\ UNCHANGED <<programVars, splitVars, prefVars, uploadVars>>

NextStore ==
  \/ SelectProfiles
  \/ SelectDocuments
  \/ SelectSessions
  \/ InsertProfile
  \/ UpdateProfile
  \/ DeleteProfile
  \/ InsertDocument
  \/ UpdateDocument
  \/ DeleteDocument
  \/ InsertSession
  \/ UpdateSession
  \/ DeleteSession

InitTables == Init /\ text = TextOne /\ synthVoices = <<>>

SpecStore == InitTables /\ [][NextStore]_vars

\* ------------------------------------------------------------------- claims
\* Utterances in flight in the synthesizer: queued or being spoken.
InFlight == Len(queue)

\* C1: at most one utterance submitted by the engine is in flight (queued or
\* speaking) in the synthesizer at any moment.
AtMostOneInFlight == InFlight <= 1

RunJustEnded == lastOp = "playpause" /\ lastRun.ended

\* C3: a play from index 0 over 3 chunks in which the synthesis of chunk 2
\* does not succeed still invokes speak for chunk 3 and ends with
\* isPlaying = false and the current index 0.
PlayGoesOnAfterFailedChunk ==
  ( /\ RunJustEnded
    /\ lastRun.from = 0
    /\ lastRun.n = 3
    /\ \A id \in DOMAIN utterances :
         utterances[id].text = textChunks[2] => utterances[id].status # "resolved" )
  => ( /\ \E k \in DOMAIN lastRun.spoken : lastRun.spoken[k] = 2
       /\ ~isPlaying
       /\ currentChunk = 0 )

\* C4: a run of play from index from over n chunks, with a voice selected,
\* invokes speak once for each index from, from + 1, ..., n - 1, in
\* increasing order.
PlaySpeaksEveryChunkInOrder ==
  lastRun.ended =>
    lastRun.spoken = [k \in 1..(lastRun.n - lastRun.from) |-> lastRun.from + k - 1]

\* C5: for every starting index in 0..n-1, when a run of play has ended the
\* current index is 0 and isPlaying is false.
PlayEndsAtIndexZero ==
  (RunJustEnded /\ lastRun.from \in 0..(lastRun.n - 1))
    => (currentChunk = 0 /\ ~isPlaying)

\* C8: in every state of the sequencer, isPaused implies isPlaying.
PausedImpliesPlaying == isPaused => isPlaying

\* C8 witness: play has run to its end and stop was pressed after it.
StoppedAfterPlay == lastOp = "stop" /\ lastRun.ended /\ Len(notices) > 0

\* C9: once chunks exist, the current chunk index is within
\* 0..chunkCount-1.
IndexWithinChunks ==
  Len(textChunks) > 0 => currentChunk \in 0..(Len(textChunks) - 1)

\* C9 witness: the source text has just been replaced by a one-chunk text
\* while the index stood at the last of three chunks.
TextReplacedAtLastIndex ==
  /\ lastOp = "text"
  /\ Len(textChunks) = 3
  /\ currentChunk = 2
  /\ text = TextOne

\* The engine is Idle in s, with nothing left in the synthesizer's queue.
Idle(s) ==
  /\ ~s.engineIsPlaying
  /\ ~s.engineIsPaused
  /\ s.currentUtterance = NoUtterance
  /\ s.queue = <<>>

\* C10: from any engine state stop() leaves the engine Idle, and a second
\* stop() changes nothing.
StopIsIdempotent ==
  /\ lastOp = "stop" => Idle(St)
  /\ Idle(stop(St))
  /\ stop(stop(St)) = stop(St)

\* C10 witness: stop was called on a paused engine whose utterance was being
\* spoken.
StoppedWhilePaused ==
  /\ lastOp = "stop"
  /\ synthPaused
  /\ events # <<>>
  /\ events[Len(events)].wasSpeaking

\* C11: pause() on an engine that is Idle or already Paused changes nothing,
\* the synthesizer's paused state included; on a Speaking engine it asks the
\* synthesizer to pause and leaves the engine Paused, changing nothing else.
PauseOnlyWhenSpeaking ==
  /\ [](LET s == pause(St)
        IN IF engineIsPlaying /\ ~engineIsPaused
           THEN s = [St EXCEPT !.engineIsPaused = TRUE, !.synthPaused = TRUE]
           ELSE s = St)
  /\ [][lastOp' = "pause" =>
         IF engineIsPlaying /\ ~engineIsPaused
         THEN engineIsPlaying' /\ engineIsPaused' /\ synthPaused'
         ELSE UNCHANGED programVars]_vars

\* C11 witness: pause was called on an Idle engine whose utterance is
\* submitted and not yet started; the synthesizer was not paused.
PausedWhileIdle ==
  /\ lastOp = "pause"
  /\ ~engineIsPlaying
  /\ queue # <<>>
  /\ ~started
  /\ ~synthPaused

\* C12: next at the last chunk index and previous at index 0 change nothing:
\* the index, isPlaying and isPaused stay, the engine is not stopped and no
\* restart of play is scheduled.
NextPreviousClampAtEnds ==
  /\ [](LET c == Closure(St)
        IN /\ currentChunk >= Len(textChunks) - 1 => handleNext(St, c) = St
           /\ currentChunk <= 0 => handlePrevious(St, c) = St)
  /\ [][/\ (lastOp' = "next" /\ currentChunk >= Len(textChunks) - 1)
            => UNCHANGED programVars
        /\ (lastOp' = "previous" /\ currentChunk <= 0)
            => UNCHANGED programVars]_vars

\* C12 witness: next was invoked on a text of one chunk, whose last index
\* is 0.
NextAtOnlyChunk ==
  /\ lastOp = "next"
  /\ Len(textChunks) = 1
  /\ currentChunk = 0

\* C13: stop of the sequencer leaves the current index 0, isPlaying = false
\* and isPaused = false, and the engine as its own stop() leaves it.
SequencerStopResets ==
  /\ lastOp = "stop" => (currentChunk = 0 /\ ~isPlaying /\ ~isPaused /\ Idle(St))
  /\ LET s == handleStop(St)
     IN /\ s.currentChunk = 0 /\ ~s.isPlaying /\ ~s.isPaused
        /\ Idle(s)
        /\ s.events = stop(St).events

\* C13 witness: stop was invoked after a play started at index 1 of three
\* chunks had ended.
StoppedAfterPlayFromMiddle ==
  /\ lastOp = "stop"
  /\ lastRun.ended
  /\ lastRun.from = 1
  /\ lastRun.n = 3

\* C14: speak() on an engine that is speaking first stops it, which empties
\* the synthesizer, and submits its utterance only in a later step, after
\* the settling delay; and an utterance that is submitted preempts every
\* utterance before it: at its submission it is alone in the synthesizer, so
\* no prior utterance is audible from then on.
NewUtterancePreemptsPrior ==
  [][/\ (lastOp' = "speak" /\ engineIsPlaying) =>
          /\ queue' = <<>>
          /\ ~engineIsPlaying'
          /\ utterances'[Len(utterances')].status = "scheduled"
     /\ \A id \in DOMAIN utterances :
          (utterances[id].status = "scheduled" /\ utterances'[id].status = "submitted")
            => queue' = <<id>>]_vars

\* splitTextIntoChunks has returned splitResult for splitArgs.
SplitReturned == lastOp = "split"

\* C16: for every non-empty text and every maxChunkSize > 0 the result of
\* splitTextIntoChunks has at least one element, and it is the one-element
\* sequence [text] when the text has no sentence fragment.
SplitNeverEmpty ==
  (SplitReturned /\ splitArgs.text # <<>> /\ splitArgs.maxChunkSize > 0)
    => /\ Len(splitResult) >= 1
       /\ Sentences(splitArgs.text) = <<>> => splitResult = <<splitArgs.text>>

\* C16 witness: a text made of a terminator and blanks only has been split.
SplitOfTerminatorsOnly ==
  /\ SplitReturned
  /\ splitArgs.text = <<".", " ", "!">>
  /\ splitResult = << <<".", " ", "!">> >>

\* C17: splitTextIntoChunks("A. B. C.", 3) returns ["A.", "B.", "C."].
SplitABCGivesThreeChunks ==
  (SplitReturned /\ splitArgs = [text |-> ExampleABC, maxChunkSize |-> 3])
    => splitResult = << <<"A", ".">>, <<"B", ".">>, <<"C", ".">> >>

\* C18: every chunk that holds two or more sentences has at most
\* maxChunkSize characters.
ChunksOfSeveralSentencesBounded ==
  SplitReturned =>
    \A k \in DOMAIN splitResult :
      Len(Sentences(splitResult[k])) >= 2 => Len(splitResult[k]) <= splitArgs.maxChunkSize

\* The trimmed non-empty sentences of s, in order.
TrimmedSentences(s) == [k \in 1..Len(Sentences(s)) |-> Trim(Sentences(s)[k])]

DropTrailingPeriod(c) == IF EndsWithPeriod(c) THEN SubSeq(c, 1, Len(c) - 1) ELSE c

\* The sentences of chunks[k..], chunk after chunk.
RECURSIVE SentencesOfChunks(_, _)
SentencesOfChunks(chunks, k) ==
  IF k > Len(chunks) THEN <<>>
  ELSE TrimmedSentences(DropTrailingPeriod(chunks[k])) \o SentencesOfChunks(chunks, k + 1)

\* C19: for every text with at least one sentence, the trimmed non-empty
\* sentences of the text are, in order and one for one, the sentences got
\* by splitting each chunk, less its trailing period, back into sentences.
SplitKeepsSentences ==
  (SplitReturned /\ Len(Sentences(splitArgs.text)) >= 1)
    => TrimmedSentences(splitArgs.text) = SentencesOfChunks(splitResult, 1)

\* C19 witness: a text of three sentences has been split into three chunks.
SplitIntoThreeChunks ==
  /\ SplitReturned
  /\ splitArgs.text = ExampleHello
  /\ Len(splitResult) = 3

\* C20: a call of waitForVoices made with a non-empty catalog is resolved
\* with it in the call; when voiceschanged fires every call pending at that
\* moment is resolved with the catalog; and no call ever fails.
WaitForVoicesResolvesEveryCall ==
  /\ [](\A id \in DOMAIN voiceCalls : voiceCalls[id].status \in {"pending", "resolved"})
  /\ [][/\ (lastOp' = "waitForVoices" /\ synthVoices # <<>>) =>
            /\ voiceCalls'[Len(voiceCalls')].status = "resolved"
            /\ voiceCalls'[Len(voiceCalls')].result = synthVoices
        /\ lastOp' = "voiceschanged" =>
            \A id \in DOMAIN voiceCalls :
              voiceCalls[id].status = "pending" =>
                /\ voiceCalls'[id].status = "resolved"
                /\ voiceCalls'[id].result = synthVoices']_vars

\* Notices with the given title shown for file id.
NoticesFor(id, title) ==
  Cardinality({k \in DOMAIN uploadNotices :
                 uploadNotices[k].file = id /\ uploadNotices[k].title = title})

\* C21: a file whose text extraction has failed has status "error" while it
\* is in the list and no extracted text, exactly one error notice has been
\* shown for it and none of success, it is never "completed" and it is not
\* the file selected for speech.
FailedExtractionIsFinal ==
  \A id \in DOMAIN uploadedFiles :
    LET f == uploadedFiles[id]
    IN f.pc = "failed" =>
         /\ f.listed => f.status = "error"
         /\ f.status # "completed"
         /\ f.extractedText = NoText
         /\ NoticesFor(id, "Extraction failed") = 1
         /\ NoticesFor(id, "Text extracted successfully") = 0
         /\ selectedFileForTTS = NoFile \/ selectedFileForTTS.id # id

\* C21 witness: the extraction of one file has failed, the file is still
\* listed, and another file was completed and is selected for speech.
FailedBesideSelected ==
  /\ \E id \in DOMAIN uploadedFiles :
       uploadedFiles[id].pc = "failed" /\ uploadedFiles[id].listed
  /\ TTSRendered

\* The user who owns a row of the given table.
OwnerOf(table, row) == IF table = "profiles" THEN row.id ELSE row.user_id

\* The rows of a table that uid does not own.
RowsOfOthers(table, rows, uid) == {r \in rows : OwnerOf(table, r) # uid}

\* C22: a statement of a user on profiles, documents or audio_sessions
\* returns only rows that user owns, and it creates, changes and removes no
\* row owned by another user.
UsersAreIsolated ==
  [][\A uid \in Users :
       dbActor' = uid =>
         /\ RowsOfOthers("profiles", profiles', uid) = RowsOfOthers("profiles", profiles, uid)
         /\ RowsOfOthers("documents", documents', uid)
              = RowsOfOthers("documents", documents, uid)
         /\ RowsOfOthers("audio_sessions", audio_sessions', uid)
              = RowsOfOthers("audio_sessions", audio_sessions, uid)
         /\ \A x \in dbRead' : OwnerOf(x.table, x.row) = uid]_storeVars

\* C23: every row of audio_sessions references a document that exists.
SessionsReferenceDocuments ==
  \A s \in audio_sessions : DocumentExists(documents, s.document_id)

\* C23 witness: the delete of a document has taken a session with it, and
\* another document is left.
DocumentDeletedWithSessions ==
  /\ lastOp = "deleteDocumentCascade"
  /\ documents # {}

\* voice.lang.startsWith("en")
IsEnglishVoice(v) == StartsWith(v.lang, <<"e", "n">>)

\* C24: the result of getPreferredVoices holds only voices of its input, it
\* is non-empty whenever the input is, and whenever it holds a non-English
\* voice it holds every English voice of the input, before that voice.
PreferredVoicesRankEnglishFirst ==
  lastOp = "preferred" =>
    /\ \A k \in DOMAIN prefResult : \E j \in DOMAIN prefArgs : prefResult[k] = prefArgs[j]
    /\ prefArgs # <<>> => prefResult # <<>>
    /\ \A k \in DOMAIN prefResult :
         ~IsEnglishVoice(prefResult[k]) =>
           \A j \in DOMAIN prefArgs :
             IsEnglishVoice(prefArgs[j]) =>
               \E i \in 1..(k - 1) : prefResult[i] = prefArgs[j]

\* C25: after stop() has returned, and until speak() is called again, no
\* utterance is submitted to the synthesizer or started by it, and the
\* engine's isPlaying and isPaused stay false; a speak() that was in its
\* settling delay when stop() was called is no exception.
EngineQuietAfterStop ==
  stoppedSinceSpeak =>
    /\ queue = <<>>
    /\ ~started
    /\ ~engineIsPlaying
    /\ ~engineIsPaused

\* C26: while the synthesizer speaks an utterance that has fired its start
\* event, the engine's isPlaying is true; and the end or error event of an
\* utterance older than the current one changes neither isPlaying and
\* isPaused nor currentUtterance.
FlagsTrackCurrentUtterance ==
  /\ [](started => engineIsPlaying)
  /\ [][\A id \in DOMAIN utterances :
          ( /\ utterances[id].event = "none"
            /\ utterances'[id].event # "none"
            /\ currentUtterance # NoUtterance
            /\ currentUtterance > id )
          => UNCHANGED <<engineIsPlaying, engineIsPaused, currentUtterance>>]_vars

\* The play loops that have not exited.
LiveLoops == {k \in DOMAIN loops : loops[k].pc # "done"}

\* C27: at most one play loop is alive at any time, and no utterance is
\* requested by a loop other than the one alive.
AtMostOneLoopAlive ==
  /\ Cardinality(LiveLoops) <= 1
  /\ \A id \in DOMAIN utterances :
       utterances[id].status \in {"scheduled", "submitted"}
         => utterances[id].owner \in LiveLoops \cup {Client}

\* C27 witness: play was started again after an earlier run of play.
PlayStartedAgain ==
  /\ RunJustEnded
  /\ Len(notices) = 2

\* C29: a run of play that shows the "Playback completed" notice has invoked
\* speak for its last chunk, index n - 1, and that speak has settled.
CompletedOnlyAfterLastChunk ==
  ( /\ RunJustEnded
    /\ notices # <<>>
    /\ notices[Len(notices)] = "Playback completed" )
  => /\ \E k \in DOMAIN lastRun.spoken : lastRun.spoken[k] = lastRun.n - 1
     /\ \E id \in DOMAIN utterances :
          /\ utterances[id].text = textChunks[lastRun.n]
          /\ utterances[id].status \in {"resolved", "rejected"}

\* No utterance submitted to the synthesizer is without its end or error
\* event; the result of every speak() called so far has settled.
NoneAwaitsEvent ==
  \A id \in DOMAIN utterances :
    utterances[id].status = "submitted" => utterances[id].event # "none"

EverySpeakSettled ==
  \A id \in DOMAIN utterances : utterances[id].status \in {"resolved", "rejected"}

\* The synthesizer fires an end or error event for every utterance that is
\* submitted to it: an utterance awaits its event until it gets it, so this
\* is to say that again and again none is waiting.
SynthesizerAnswers == []<>NoneAwaitsEvent

====
